---------------------------- MODULE Spec2Model ----------------------------
(***************************************************************************)
(* A model of the three chat components of the repository:                 *)
(*   "learn"  SmartChatGPT with online learning                            *)
(*            (src/ai_chat_box_frontend/src/SmartChatGPT.js)               *)
(*   "basic"  SmartChatGPT without learning (src/unnamed/part_000)         *)
(*   "bot"    ChatBot / SmartTalk (src/unnamed/part_001)                   *)
(* One of them is mounted (variable component); its React state, the       *)
(* browser's localStorage, the pending persist effect and the suspended    *)
(* async handleSend (variable task) are the state.                         *)
(*                                                                         *)
(* Representation.                                                         *)
(*  - Texts are strings over ASCII.  A character of the source outside     *)
(*    ASCII is written U+XXXX in a feature token and as a stand-in of the  *)
(*    same number of UTF-16 units in a reply ("'" for U+2019, "-" for      *)
(*    U+2014, "<>", "<*>", "<**>" for an emoji of 2, 3, 4 units).          *)
(*  - The weights, biases and scores are IEEE doubles in the source.  The  *)
(*    model keeps them in fixed point, Unit = 10^-6: 1.0 is One.  A        *)
(*    product is rounded to the nearest unit.                              *)
(*  - localStorage is assumed to accept every write (no quota error), so   *)
(*    the catch of persistMemory is not taken.                             *)
(*  - React renders between two events: a handler reads the state of the   *)
(*    latest render; an async handler keeps the values it closed over.     *)
(***************************************************************************)
EXTENDS Integers, Sequences, FiniteSets, TLC

(***************************************************************************)
(* Strings                                                                 *)
(***************************************************************************)
CharAt(s, i) == SubSeq(s, i, i)

\* a text that is missing (undefined or null)
undefined == "<undefined>"

\* text || ''
OrEmpty(text) == IF text = undefined THEN "" ELSE text

UpperChars == "ABCDEFGHIJKLMNOPQRSTUVWXYZ"

LowerChars == "abcdefghijklmnopqrstuvwxyz"

\* String.prototype.toLowerCase on one character
LowerChar(c) ==
  IF \E k \in 1..Len(UpperChars) : CharAt(UpperChars, k) = c
  THEN CharAt(LowerChars, CHOOSE k \in 1..Len(UpperChars) : CharAt(UpperChars, k) = c)
  ELSE c

\* the characters of s from the i-th on, in lower case
RECURSIVE LowerFrom(_, _)
LowerFrom(s, i) ==
  IF i > Len(s) THEN "" ELSE LowerChar(CharAt(s, i)) \o LowerFrom(s, i + 1)

\* String.prototype.toLowerCase
toLowerCase(s) == LowerFrom(s, 1)

\* the white space of the model's alphabet
IsSpace(c) == c = " "

\* the positions of s that hold no white space
NonSpace(s) == {i \in 1..Len(s) : ~IsSpace(CharAt(s, i))}

\* String.prototype.trimStart
trimStart(s) ==
  IF NonSpace(s) = {} THEN ""
  ELSE SubSeq(s, CHOOSE i \in NonSpace(s) : \A j \in NonSpace(s) : i <= j, Len(s))

\* String.prototype.trimEnd
trimEnd(s) ==
  IF NonSpace(s) = {} THEN ""
  ELSE SubSeq(s, 1, CHOOSE i \in NonSpace(s) : \A j \in NonSpace(s) : i >= j)

\* String.prototype.trim
trim(s) == trimEnd(trimStart(s))

\* String.prototype.includes
includes(s, tok) ==
  \E i \in 1..(Len(s) - Len(tok) + 1) : SubSeq(s, i, i + Len(tok) - 1) = tok

\* String.prototype.endsWith
endsWith(s, tok) ==
  Len(s) >= Len(tok) /\ SubSeq(s, Len(s) - Len(tok) + 1, Len(s)) = tok

\* text.split(/\s+/).filter(Boolean).length: the maximal runs of non-space
wordCount(s) ==
  Cardinality({i \in 1..Len(s) :
                 /\ ~IsSpace(CharAt(s, i))
                 /\ (i = 1 \/ IsSpace(CharAt(s, i - 1)))})

\* a function on 1..n as the array of its values
Array(f) == SubSeq(f, 1, Len(f))

(***************************************************************************)
(* Fixed point                                                             *)
(***************************************************************************)
One == 1000000

\* clamp(x, lo, hi) = Math.max(lo, Math.min(hi, x))
Min(a, b) == IF a <= b THEN a ELSE b

Max(a, b) == IF a >= b THEN a ELSE b

\* clamp without its upper end
clamp_lowerOnly(x, lo, hi) == Max(lo, x)

clamp(x, lo, hi) == Max(lo, Min(hi, x))

Abs(x) == IF x < 0 THEN -x ELSE x

RECURSIVE Gcd(_, _)
Gcd(a, b) == IF b = 0 THEN a ELSE Gcd(b, a % b)

\* the product a * b of two fixed-point numbers, rounded to the nearest unit
\* (b / One is reduced first, so that the product stays within TLC's integers)
Mul(a, b) ==
  LET g == Gcd(One, Abs(b))
      num == b \div g
      den == One \div g
  IN (a * num * 2 + den) \div (2 * den)

(***************************************************************************)
(* The classifier's tables (learn)                                         *)
(***************************************************************************)
INTENT_DEFS == <<
  [key |-> "greeting", baseBias |-> 300000,
   response |-> "Hi there! <> How can I help you today?"],
  [key |-> "smalltalk_status", baseBias |-> 100000,
   response |-> "I'm doing great! How about you?"],
  [key |-> "weather", baseBias |-> 0,
   response |-> "I don't pull live weather, but it looks like a great day to build something cool! <*>"],
  [key |-> "name", baseBias |-> 50000,
   response |-> "I'm SmartChatGPT - a lightweight assistant running entirely in your browser."],
  [key |-> "farewell", baseBias |-> 200000,
   response |-> "Goodbye! <> Have a great day!"],
  [key |-> "project_context", baseBias |-> 100000,
   response |-> "We're using an Ocean Professional theme with a modern React UI. What would you like to build?"],
  [key |-> "generic_followup", baseBias |-> 150000,
   response |-> "Got it. Would you like a summary, suggestions, or examples to move forward?"] >>

IntentKeys == {INTENT_DEFS[k].key : k \in DOMAIN INTENT_DEFS}

FEATURE_SPECS == <<
  [name |-> "kw_hello", tokens |-> <<"hello", "hi", "hey", "yo">>],
  [name |-> "kw_how_are_you", tokens |-> <<"how are you", "hows it going", "how r u">>],
  [name |-> "kw_weather", tokens |-> <<"weather", "rain", "sunny", "forecast">>],
  [name |-> "kw_name", tokens |-> <<"name", "who are you", "what are you">>],
  [name |-> "kw_thanks", tokens |-> <<"thanks", "thank you", "thx", "appreciate">>],
  [name |-> "kw_bye", tokens |-> <<"bye", "goodbye", "see you", "cya">>],
  [name |-> "kw_project",
   tokens |-> <<"project", "build", "tech", "react", "frontend", "design", "theme">>],
  [name |-> "kw_help", tokens |-> <<"help", "assist", "support">>],
  [name |-> "cue_question", tokens |-> <<"?">>],
  [name |-> "cue_exclaim", tokens |-> <<"!">>],
  [name |-> "sent_pos",
   tokens |-> <<":)", "U+1F642", "U+1F60A", "U+1F44D", "great", "awesome">>],
  [name |-> "sent_neg", tokens |-> <<":(", "U+1F641", "U+1F614", "bad", "terrible">>],
  [name |-> "len_short", tokens |-> <<>>],
  [name |-> "len_medium", tokens |-> <<>>],
  [name |-> "len_long", tokens |-> <<>>] >>

FeatureCount == Len(FEATURE_SPECS)

BASE_RULES == [k \in IntentKeys |->
  CASE k = "greeting" -> <<"kw_hello", "sent_pos", "len_short">>
    [] k = "smalltalk_status" -> <<"kw_how_are_you", "sent_pos">>
    [] k = "weather" -> <<"kw_weather", "cue_question">>
    [] k = "name" -> <<"kw_name", "cue_question">>
    [] k = "farewell" -> <<"kw_bye", "sent_pos", "len_short">>
    [] k = "project_context" -> <<"kw_project", "kw_help">>
    [] k = "generic_followup" -> <<"cue_question", "len_long", "kw_help">>]

\* FEATURE_SPECS.findIndex(f => f.name === fname): the first index, or 0 for -1
findIndex(fname) ==
  IF \E i \in 1..FeatureCount : FEATURE_SPECS[i].name = fname
  THEN CHOOSE i \in 1..FeatureCount :
         /\ FEATURE_SPECS[i].name = fname
         /\ \A j \in 1..(i - 1) : FEATURE_SPECS[j].name # fname
  ELSE 0

createZeroWeights == [k \in IntentKeys |-> [i \in 1..FeatureCount |-> 0]]

\* spec.name.startsWith('len_')
IsLenSpec(spec) == Len(spec.name) >= 4 /\ SubSeq(spec.name, 1, 4) = "len_"

\* extractFeatures taking a message of 3 words for a medium one
extractFeatures_shortBelowThree(textRaw) ==
  LET text == trim(toLowerCase(OrEmpty(textRaw)))
      wc == wordCount(text)
      hit(spec) == \E t \in 1..Len(spec.tokens) : includes(text, spec.tokens[t])
      bucket == IF wc < 3 /\ findIndex("len_short") > 0 THEN findIndex("len_short")
                ELSE IF wc <= 12 /\ findIndex("len_medium") > 0 THEN findIndex("len_medium")
                ELSE IF findIndex("len_long") > 0 THEN findIndex("len_long")
                ELSE 0
  IN Array([idx \in 1..FeatureCount |->
              IF IsLenSpec(FEATURE_SPECS[idx])
              THEN (IF idx = bucket THEN 1 ELSE 0)
              ELSE (IF hit(FEATURE_SPECS[idx]) THEN 1 ELSE 0)])

extractFeatures(textRaw) ==
  LET text == trim(toLowerCase(OrEmpty(textRaw)))
      wc == wordCount(text)
      hit(spec) == \E t \in 1..Len(spec.tokens) : includes(text, spec.tokens[t])
      bucket == IF wc <= 3 /\ findIndex("len_short") > 0 THEN findIndex("len_short")
                ELSE IF wc <= 12 /\ findIndex("len_medium") > 0 THEN findIndex("len_medium")
                ELSE IF findIndex("len_long") > 0 THEN findIndex("len_long")
                ELSE 0
  IN Array([idx \in 1..FeatureCount |->
              IF IsLenSpec(FEATURE_SPECS[idx])
              THEN (IF idx = bucket THEN 1 ELSE 0)
              ELSE (IF hit(FEATURE_SPECS[idx]) THEN 1 ELSE 0)])

RECURSIVE SumTo(_, _)
SumTo(f, n) == IF n = 0 THEN 0 ELSE f[n] + SumTo(f, n - 1)

\* the score of one intent: dot(W_i, x) + baseBias + ruleBonus
intentScore(weights, features, intent) ==
  LET w == weights[intent.key]
      dot == SumTo(Array([i \in 1..Len(features) |-> w[i] * features[i]]), Len(features))
      ruleFeats == BASE_RULES[intent.key]
      ruleBonus == SumTo(Array([r \in 1..Len(ruleFeats) |->
                                  IF findIndex(ruleFeats[r]) > 0
                                     /\ features[findIndex(ruleFeats[r])] > 0
                                  THEN 150000 ELSE 0]), Len(ruleFeats))
  IN dot + intent.baseBias + ruleBonus

\* scores.sort((a, b) => b.score - a.score): stable, by non-increasing score
RankOf(scores, k) ==
  1 + Cardinality({j \in DOMAIN scores :
                     \/ scores[j].score > scores[k].score
                     \/ (scores[j].score = scores[k].score /\ j < k)})

\* the sort with its comparator reversed: (a, b) => a.score - b.score
sortByScore_ascending(scores) ==
  Array([r \in DOMAIN scores |->
           scores[CHOOSE k \in DOMAIN scores :
                    RankOf(scores, k) = Len(scores) + 1 - r]])

sortByScore(scores) ==
  Array([r \in DOMAIN scores |->
           scores[CHOOSE k \in DOMAIN scores : RankOf(scores, k) = r]])

scoreIntents(weights, features) ==
  sortByScore(Array([k \in DOMAIN INTENT_DEFS |->
                       [key |-> INTENT_DEFS[k].key,
                        score |-> intentScore(weights, features, INTENT_DEFS[k])]]))

decideIntent(weights, text) ==
  LET feats == extractFeatures(text)
      ranked == scoreIntents(weights, feats)
  IN [topIntent |-> ranked[1].key, features |-> feats, ranked |-> ranked]

\* updateWeights(weights, intentKey, features, lr, clampRange, decay)
\* (lr, clampRange and decay in fixed point; 1e-4 is 100 units)
\* updateWeights without the zeroing of small decayed weights
updateWeights_noThreshold(weights, intentKey, features, lr, clampRange, decay) ==
  [k \in IntentKeys |->
     IF k = intentKey
     THEN [i \in 1..Len(features) |->
             clamp(weights[k][i] + lr * features[i], -clampRange, clampRange)]
     ELSE [i \in 1..Len(features) |-> Mul(weights[k][i], One - decay)]]

updateWeights(weights, intentKey, features, lr, clampRange, decay) ==
  [k \in IntentKeys |->
     IF k = intentKey
     THEN [i \in 1..Len(features) |->
             clamp(weights[k][i] + lr * features[i], -clampRange, clampRange)]
     ELSE [i \in 1..Len(features) |->
             LET v == Mul(weights[k][i], One - decay)
             IN IF Abs(v) < 100 THEN 0 ELSE v]]

(***************************************************************************)
(* JavaScript values, JSON and localStorage                                *)
(* A value of unknown shape is tagged with its type.  A stored item is     *)
(* absent (getItem gives null), a JSON text (kept as the document it       *)
(* denotes) or a text that is not JSON.                                    *)
(***************************************************************************)
JNull == [t |-> "null"]

JNum(n) == [t |-> "number", v |-> n]

JBool(b) == [t |-> "boolean", v |-> b]

JStr(s) == [t |-> "string", v |-> s]

\* an array: its elements, and the named properties set on it
JArr(seq) == [t |-> "array", v |-> seq, props |-> <<>>]

\* an object: a function from its keys to their values
JObj(f) == [t |-> "object", v |-> f]

NoItem == [t |-> "none"]

JsonText(doc) == [t |-> "text", valid |-> TRUE, doc |-> doc, raw |-> ""]

RawText(s) == [t |-> "text", valid |-> FALSE, doc |-> JNull, raw |-> s]

\* the truthiness of what getItem returns: null and '' are falsy
Truthy(item) == item.t = "text" /\ (item.valid \/ item.raw # "")

\* JSON.stringify of a value without NaN, Infinity or undefined
JSONstringify(v) == JsonText(v)

\* JSON.parse throws on a text that is not JSON
JSONparseThrows(item) == ~item.valid

JSONparse(item) == item.doc

LS_KEYS == [weights |-> "smartgpt_intent_weights_v1",
            stats |-> "smartgpt_stats_v1",
            learnEnabled |-> "smartgpt_learning_enabled_v1"]

StorageKeys == {LS_KEYS.weights, LS_KEYS.stats, LS_KEYS.learnEnabled}

\* localStorage: a function from the keys that hold an item to their items
EmptyStorage == <<>>

\* localStorage.getItem(key)
getItem(storage, key) == IF key \in DOMAIN storage THEN storage[key] ELSE NoItem

\* the typed memory of the component as JavaScript values, and back
WeightsToJs(w) ==
  JObj([k \in DOMAIN w |-> JArr([i \in DOMAIN w[k] |-> JNum(w[k][i])])])

StatsToJs(st) == JObj([f \in {"messages", "updates"} |->
                        IF f = "messages" THEN JNum(st.messages) ELSE JNum(st.updates)])

MemoryToJs(m) == [weights |-> WeightsToJs(m.weights),
                  stats |-> StatsToJs(m.stats),
                  learningEnabled |-> JBool(m.learningEnabled)]

WeightsFromJs(j) == [k \in DOMAIN j.v |-> [i \in DOMAIN j.v[k].v |-> j.v[k].v[i].v]]

StatsFromJs(j) == [messages |-> j.v["messages"].v, updates |-> j.v["updates"].v]

MemoryFromJs(j) == [weights |-> WeightsFromJs(j.weights),
                    stats |-> StatsFromJs(j.stats),
                    learningEnabled |-> j.learningEnabled.v]

\* weights[key] of a value that is not null: undefined is JNull here
GetProp(j, key) ==
  IF j.t = "object" THEN (IF key \in DOMAIN j.v THEN j.v[key] ELSE JNull)
  ELSE IF j.t = "array" THEN (IF key \in DOMAIN j.props THEN j.props[key] ELSE JNull)
  ELSE JNull

\* weights[key] = val on an object or an array
SetProp(j, key, val) ==
  IF j.t = "object"
  THEN [j EXCEPT !.v = [k \in DOMAIN j.v \cup {key} |-> IF k = key THEN val ELSE j.v[k]]]
  ELSE [j EXCEPT !.props = [k \in DOMAIN j.props \cup {key} |->
                              IF k = key THEN val ELSE j.props[k]]]

\* the shape test of loadMemory on one intent's entry
BadEntry(e) == ~(e.t = "array") \/ Len(e.v) # FeatureCount

RECURSIVE validateShape(_, _)
validateShape(weights, n) ==
  IF n = 0 THEN weights
  ELSE LET before == validateShape(weights, n - 1)
           key == INTENT_DEFS[n].key
       IN IF BadEntry(GetProp(before, key))
          THEN SetProp(before, key, JArr([i \in 1..FeatureCount |-> JNum(0)]))
          ELSE before

DefaultMemory == [weights |-> createZeroWeights,
                  stats |-> [messages |-> 0, updates |-> 0],
                  learningEnabled |-> TRUE]

\* loadMemory reading the switch as JSON.parse(learnJson) || true
loadMemory_switchOrTrue(storage) ==
  LET weightsJson == getItem(storage, LS_KEYS.weights)
      statsJson == getItem(storage, LS_KEYS.stats)
      learnJson == getItem(storage, LS_KEYS.learnEnabled)
      parseThrows == \/ (Truthy(weightsJson) /\ JSONparseThrows(weightsJson))
                     \/ (Truthy(statsJson) /\ JSONparseThrows(statsJson))
                     \/ (Truthy(learnJson) /\ JSONparseThrows(learnJson))
      weights == IF Truthy(weightsJson) THEN JSONparse(weightsJson)
                 ELSE WeightsToJs(createZeroWeights)
      stats == IF Truthy(statsJson) THEN JSONparse(statsJson)
               ELSE StatsToJs([messages |-> 0, updates |-> 0])
      learningEnabled == IF Truthy(learnJson) /\ JSONparse(learnJson) # JBool(FALSE)
                         THEN JSONparse(learnJson) ELSE JBool(TRUE)
      validateThrows == weights.t \notin {"object", "array"}
  IN IF parseThrows \/ validateThrows
     THEN MemoryToJs(DefaultMemory)
     ELSE [weights |-> validateShape(weights, Len(INTENT_DEFS)),
           stats |-> stats,
           learningEnabled |-> learningEnabled]

\* loadMemory(): storage maps each key of LS_KEYS to its item.  The try block
\* throws where JSON.parse throws, where weights is null (a property of null
\* is read) and where weights is a primitive (the module is strict code: the
\* assignment of a property to a primitive throws).
loadMemory(storage) ==
  LET weightsJson == getItem(storage, LS_KEYS.weights)
      statsJson == getItem(storage, LS_KEYS.stats)
      learnJson == getItem(storage, LS_KEYS.learnEnabled)
      parseThrows == \/ (Truthy(weightsJson) /\ JSONparseThrows(weightsJson))
                     \/ (Truthy(statsJson) /\ JSONparseThrows(statsJson))
                     \/ (Truthy(learnJson) /\ JSONparseThrows(learnJson))
      weights == IF Truthy(weightsJson) THEN JSONparse(weightsJson)
                 ELSE WeightsToJs(createZeroWeights)
      stats == IF Truthy(statsJson) THEN JSONparse(statsJson)
               ELSE StatsToJs([messages |-> 0, updates |-> 0])
      learningEnabled == IF Truthy(learnJson) THEN JSONparse(learnJson) ELSE JBool(TRUE)
      validateThrows == weights.t \notin {"object", "array"}
  IN IF parseThrows \/ validateThrows
     THEN MemoryToJs(DefaultMemory)
     ELSE [weights |-> validateShape(weights, Len(INTENT_DEFS)),
           stats |-> stats,
           learningEnabled |-> learningEnabled]

\* persistMemory without its third setItem call
persistMemory_withoutSwitch(storage, weights, stats, learningEnabled) ==
  [k \in DOMAIN storage \cup {LS_KEYS.weights, LS_KEYS.stats} |->
     IF k = LS_KEYS.weights THEN JSONstringify(WeightsToJs(weights))
     ELSE IF k = LS_KEYS.stats THEN JSONstringify(StatsToJs(stats))
     ELSE storage[k]]

\* persistMemory(weights, stats, learningEnabled): the three setItem calls
persistMemory(storage, weights, stats, learningEnabled) ==
  [k \in DOMAIN storage \cup StorageKeys |->
     IF k = LS_KEYS.weights THEN JSONstringify(WeightsToJs(weights))
     ELSE IF k = LS_KEYS.stats THEN JSONstringify(StatsToJs(stats))
     ELSE IF k = LS_KEYS.learnEnabled THEN JSONstringify(JBool(learningEnabled))
     ELSE storage[k]]

(***************************************************************************)
(* learn: response and context                                             *)
(***************************************************************************)
NULL == "<null>"

SameTopic == " By the way, I recall we were on the same topic earlier."

\* INTENT_DEFS.find(d => d.key === intentKey) || the generic_followup entry
findIntent(intentKey) ==
  IF \E k \in DOMAIN INTENT_DEFS : INTENT_DEFS[k].key = intentKey
  THEN INTENT_DEFS[CHOOSE k \in DOMAIN INTENT_DEFS : INTENT_DEFS[k].key = intentKey]
  ELSE INTENT_DEFS[CHOOSE k \in DOMAIN INTENT_DEFS : INTENT_DEFS[k].key = "generic_followup"]

generateResponseForIntent(intentKey, ctx) ==
  LET def == findIntent(intentKey)
  IN IF ctx.lastIntent = intentKey
     THEN def.response \o SameTopic
     ELSE IF intentKey = "greeting" /\ Len(ctx.history) > 0
     THEN def.response \o " I remember our recent chat-ready to continue?"
     ELSE IF intentKey = "generic_followup"
             /\ (ctx.lastIntent = "project_context" \/ ctx.lastIntent = "help")
     THEN "Makes sense. Would examples or a quick outline help you proceed?"
     ELSE def.response

\* history.slice(-2)
LastTwo(h) == IF Len(h) <= 2 THEN h ELSE SubSeq(h, Len(h) - 1, Len(h))

\* updateContext(context, userText, decidedIntent); an intent key is truthy
updateContext(ctx, userText, decidedIntent) ==
  [lastIntent |-> IF decidedIntent # "" /\ decidedIntent # NULL THEN decidedIntent
                  ELSE ctx.lastIntent,
   history |-> Append(LastTwo(ctx.history), userText)]

\* the updater handleSend gives to setMemory
\* the update of an exchange without its test of learningEnabled
exchangeUpdate_alwaysLearning(prev, topIntent, features) ==
  [prev EXCEPT !.weights = updateWeights(prev.weights, topIntent, features,
                                         100000, 2000000, 10000),
               !.stats = [messages |-> prev.stats.messages + 1,
                          updates |-> prev.stats.updates + 1]]

exchangeUpdate(prev, topIntent, features) ==
  LET nextStats == [messages |-> prev.stats.messages + 1, updates |-> prev.stats.updates]
  IN IF prev.learningEnabled
     THEN [prev EXCEPT
             !.weights = updateWeights(prev.weights, topIntent, features,
                                       100000, 2000000, 10000),
             !.stats = [nextStats EXCEPT !.updates = nextStats.updates + 1]]
     ELSE [prev EXCEPT !.stats = nextStats]

(***************************************************************************)
(* basic: the rule tables of src/unnamed/part_000                          *)
(***************************************************************************)
INTENTS == <<
  [key |-> "greeting", patterns |-> <<"hello", "hi", "hey">>,
   response |-> "Hi there! <> How can I help you today?"],
  [key |-> "help", patterns |-> <<"help", "assist", "support">>,
   response |-> "Sure, tell me what you need help with and I can guide you."],
  [key |-> "thanks", patterns |-> <<"thank", "thanks", "thx">>,
   response |-> "You're very welcome! <> Anything else I can do?"],
  [key |-> "bye", patterns |-> <<"bye", "goodbye", "see you">>,
   response |-> "Goodbye! <> Have a great day!"],
  [key |-> "theme", patterns |-> <<"theme", "color", "design">>,
   response |-> "We're using a modern ocean-inspired style with blue and amber accents for clarity and focus."] >>

updateContextBasic(ctx, userText) ==
  LET lower == toLowerCase(userText)
      lastIntent ==
        IF includes(lower, "help") THEN "help"
        ELSE IF includes(lower, "hello") \/ includes(lower, "hi") \/ includes(lower, "hey")
        THEN "greeting"
        ELSE IF includes(lower, "thanks") THEN "thanks"
        ELSE IF includes(lower, "bye") THEN "bye"
        ELSE IF includes(lower, "theme") \/ includes(lower, "color") THEN "theme"
        ELSE "general"
  IN [lastIntent |-> lastIntent, history |-> Append(LastTwo(ctx.history), userText)]

IntentMatches(intent, lower) ==
  \E p \in 1..Len(intent.patterns) : includes(lower, intent.patterns[p])

decideResponse(userText, ctx) ==
  LET lower == toLowerCase(userText)
  IN IF \E k \in DOMAIN INTENTS : IntentMatches(INTENTS[k], lower)
     THEN LET k == CHOOSE j \in DOMAIN INTENTS :
                     /\ IntentMatches(INTENTS[j], lower)
                     /\ \A h \in 1..(j - 1) : ~IntentMatches(INTENTS[h], lower)
          IN IF ctx.lastIntent = INTENTS[k].key
             THEN INTENTS[k].response \o SameTopic
             ELSE INTENTS[k].response
     ELSE IF ctx.lastIntent = "help"
     THEN "Could you share more specifics? For example: the goal, constraints, or where you're stuck."
     ELSE IF endsWith(lower, "?")
     THEN "Great question! I can help you explore possible approaches or explain the concepts involved."
     ELSE "Got it. Would you like a summary, suggestions, or examples to move forward?"

(***************************************************************************)
(* bot: the placeholder model of src/unnamed/part_001                      *)
(***************************************************************************)
alphabet == "abcdefghijklmnopqrstuvwxyz "

\* charIndex.get(ch) || 0
charIndex(ch) ==
  IF \E i \in 1..Len(alphabet) : CharAt(alphabet, i) = ch
  THEN CHOOSE i \in 1..Len(alphabet) : CharAt(alphabet, i) = ch
  ELSE 0

\* model.tokenize(text)
tokenize(text) ==
  LET lower == toLowerCase(text)
  IN IF Len(lower) = 0 THEN <<0>> ELSE Array([i \in 1..Len(lower) |-> charIndex(CharAt(lower, i))])

\* scoreBelow with the bound itself counted as below
scoreBelow_inclusive(tokens, bound) ==
  LET sum == SumTo(tokens, Len(tokens))
  IN sum * Len(tokens) + sum <= bound * Len(tokens)

\* model.infer(tokens) is sum + mean; scoreBelow compares it with a whole
\* number: sum + sum / n < bound, said without the division
scoreBelow(tokens, bound) ==
  LET sum == SumTo(tokens, Len(tokens))
  IN sum * Len(tokens) + sum < bound * Len(tokens)

generateBotResponse(userText) ==
  LET text == trim(OrEmpty(userText))
      tokens == tokenize(text)
      lower == toLowerCase(text)
  IN IF text = "" THEN "I'm here whenever you're ready."
     ELSE IF includes(lower, "hello") \/ includes(lower, "hi")
     THEN "Hi there! <**> What would you like to chat about?"
     ELSE IF includes(lower, "help")
     THEN "Sure! Tell me a bit more about what you need help with."
     ELSE IF includes(lower, "color") \/ includes(lower, "theme")
     THEN "We are using the Ocean Professional theme: blue (#2563EB), amber (#F59E0B), and a clean surface."
     ELSE IF scoreBelow(tokens, 50)
     THEN "Interesting! Could you elaborate a bit more?"
     ELSE IF scoreBelow(tokens, 150)
     THEN "Got it. That makes sense. Do you have any follow-up questions?"
     ELSE "Thanks for the details! If you want, I can summarize or suggest next steps."

BotErrorReply == "Oops! I ran into an issue processing that. Please try again."

(***************************************************************************)
(* The state                                                               *)
(***************************************************************************)
VARIABLES
  component,   \* which component is mounted: "learn", "basic", "bot", "loader"
  messages,    \* useState: the transcript
  input,       \* useState: the text of the input field
  isTyping,    \* useState (learn, basic)
  loading,     \* useState (bot)
  context,     \* useState (learn, basic): [lastIntent, history]
  memory,      \* useState (learn): [weights, stats, learningEnabled]
  storage,     \* the browser's localStorage
  effect,      \* the persist effect not yet run: << >> or <<memory it closed over>>
  task,        \* the suspended handleSend: its position and the values it holds
  loaded       \* the result of a bare loadMemory() call (specification SpecLoad)

vars == <<component, messages, input, isTyping, loading, context, memory,
          storage, effect, task, loaded>>

\* the most exchanges of one run of the model
MaxExchanges == 2

\* the typing of a reply is followed for its first MaxReplyLen characters
MaxReplyLen == 3

\* the sends of the earlier session that left its memory in localStorage
PriorGreetings == 695

\* what the user types into the input field
Texts == {"  ", " Hi ", "Bye?"}

\* Math.random().toString(36)
TypingIds == {"0.4fzyo82mvyr"}

\* the keys of handleKeyDown's event
KeyEvents == {[key |-> "Enter", shiftKey |-> FALSE],
              [key |-> "Enter", shiftKey |-> TRUE],
              [key |-> "a", shiftKey |-> FALSE]}

Idle == [pc |-> "idle"]

NotLoaded == [t |-> "not loaded"]

InitialContext == [lastIntent |-> NULL, history |-> <<>>]

InitialMessages(c) ==
  IF c = "learn"
  THEN <<[role |-> "assistant",
          content |-> "Hello! I'm SmartChatGPT <> - now with simple in-browser learning. How can I help?"]>>
  ELSE IF c = "basic"
  THEN <<[role |-> "assistant",
          content |-> "Hello! I'm SmartChatGPT <> - a lightweight, React-only demo. How can I help you?"]>>
  ELSE <<[from |-> "bot", text |-> "Hello! I am SmartTalk <**>. How can I help you today?"]>>

\* the memory an earlier session leaves: n accepted sends of text, learning on,
\* each decided on the weights of its render (the comparisons make TLC compute
\* the memory of each step before the next)
RECURSIVE AfterSends(_, _, _)
AfterSends(m, text, n) ==
  IF n = 0 THEN m
  ELSE IF n = 1
  THEN LET d == decideIntent(m.weights, text)
           r == exchangeUpdate(m, d.topIntent, d.features)
       IN IF r = r THEN r ELSE m
  ELSE LET half == AfterSends(m, text, n \div 2)
       IN IF half = half THEN AfterSends(half, text, n - (n \div 2)) ELSE m

\* an earlier session: "Bye?" once, " Hi " PriorGreetings times, learning
\* switched off at its end
PriorMemories ==
  { [AfterSends(AfterSends(DefaultMemory, "Bye?", 1), " Hi ", PriorGreetings)
       EXCEPT !.learningEnabled = FALSE] }

\* what localStorage holds when the component mounts: nothing, or what an
\* earlier session persisted
ProgramStorages ==
  {EmptyStorage} \cup
  {persistMemory(EmptyStorage, m.weights, m.stats, m.learningEnabled) : m \in PriorMemories}

Init ==
  /\ component \in {"learn", "basic", "bot"}
  /\ messages = InitialMessages(component)
  /\ input = ""
  /\ isTyping = FALSE
  /\ loading = FALSE
  /\ context = InitialContext
  /\ storage \in (IF component = "learn" THEN ProgramStorages ELSE {EmptyStorage})
  /\ memory = MemoryFromJs(loadMemory(storage))
  /\ effect = IF component = "learn" THEN <<memory>> ELSE <<>>
  /\ task = Idle
  /\ loaded = NotLoaded

(***************************************************************************)
(* Steps shared by the components                                          *)
(***************************************************************************)
UserCount ==
  Cardinality({i \in DOMAIN messages :
                 IF component = "bot" THEN messages[i].from = "user"
                 ELSE messages[i].role = "user"})

\* onChange of the input field
SetInput ==
  /\ component \in {"learn", "basic", "bot"}
  /\ \E t \in Texts \cup {""} : input' = t
  /\ UNCHANGED <<component, messages, isTyping, loading, context, memory,
                 storage, effect, task, loaded>>

\* setMemory(next) and the render it causes: React runs the persist effect of
\* the render before, then this render leaves its own effect to run
SetMemory(next) ==
  /\ memory' = next
  /\ storage' = IF effect # <<>>
                THEN persistMemory(storage, effect[1].weights, effect[1].stats,
                                   effect[1].learningEnabled)
                ELSE storage
  /\ effect' = <<next>>

\* useEffect(() => persistMemory(weights, stats, learningEnabled), [...])
PersistEffect ==
  /\ component = "learn"
  /\ effect # <<>>
  /\ storage' = persistMemory(storage, effect[1].weights, effect[1].stats,
                              effect[1].learningEnabled)
  /\ effect' = <<>>
  /\ UNCHANGED <<component, messages, input, isTyping, loading, context, memory,
                 task, loaded>>

HasTypingId(m, id) == "typingId" \in DOMAIN m /\ m.typingId = id

\* the content update without its test of typingId
setContent_everyMessage(msgs, id, current) ==
  [i \in DOMAIN msgs |-> [msgs[i] EXCEPT !.content = current]]

\* prev.map(m => m.typingId === typingId ? {...m, content: current} : m)
setContent(msgs, id, current) ==
  [i \in DOMAIN msgs |->
     IF HasTypingId(msgs[i], id) THEN [msgs[i] EXCEPT !.content = current] ELSE msgs[i]]

\* prev.map(m => m.typingId === typingId ? rest : m), rest being m without typingId
removeTypingId(msgs, id) ==
  [i \in DOMAIN msgs |->
     IF HasTypingId(msgs[i], id)
     THEN [f \in DOMAIN msgs[i] \ {"typingId"} |-> msgs[i][f]]
     ELSE msgs[i]]

\* typeOutAssistantMessage(fullText) up to its first await, from the transcript
\* msgs; with an empty fullText it runs to its end, and handleSend to its own
StartTyping(msgs, reply) ==
  \E id \in TypingIds :
    LET fullText == SubSeq(reply, 1, Min(Len(reply), MaxReplyLen))
        appended == Append(msgs, [role |-> "assistant", content |-> "", typingId |-> id])
    IN IF Len(fullText) = 0
       THEN /\ messages' = removeTypingId(appended, id)
            /\ isTyping' = FALSE
            /\ task' = Idle
       ELSE /\ messages' = appended
            /\ isTyping' = isTyping
            /\ task' = [pc |-> "typing", fullText |-> fullText,
                        current |-> SubSeq(fullText, 1, 1), typingId |-> id]

\* the typing loop ending without handleSend's setIsTyping(false)
TypeStep_keepsTyping ==
  /\ component \in {"learn", "basic"}
  /\ task.pc = "typing"
  /\ LET shown == setContent(messages, task.typingId, task.current)
         i == Len(task.current)
     IN IF i < Len(task.fullText)
        THEN /\ messages' = shown
             /\ task' = [task EXCEPT !.current = task.current \o CharAt(task.fullText, i + 1)]
             /\ isTyping' = isTyping
        ELSE /\ messages' = removeTypingId(shown, task.typingId)
             /\ task' = Idle
             /\ isTyping' = isTyping
  /\ UNCHANGED <<component, input, loading, context, memory, storage, effect, loaded>>

\* a typing timer fires: the loop of typeOutAssistantMessage shows current and
\* awaits the next character, or ends, and handleSend then sets isTyping false
TypeStep ==
  /\ component \in {"learn", "basic"}
  /\ task.pc = "typing"
  /\ LET shown == setContent(messages, task.typingId, task.current)
         i == Len(task.current)
     IN IF i < Len(task.fullText)
        THEN /\ messages' = shown
             /\ task' = [task EXCEPT !.current = task.current \o CharAt(task.fullText, i + 1)]
             /\ isTyping' = isTyping
        ELSE /\ messages' = removeTypingId(shown, task.typingId)
             /\ task' = Idle
             /\ isTyping' = FALSE
  /\ UNCHANGED <<component, input, loading, context, memory, storage, effect, loaded>>

(***************************************************************************)
(* learn                                                                   *)
(***************************************************************************)
toggleLearning ==
  /\ component = "learn"
  /\ SetMemory([memory EXCEPT !.learningEnabled = ~memory.learningEnabled])
  /\ UNCHANGED <<component, messages, input, isTyping, loading, context, task, loaded>>

\* resetLearning without setLearningEnabled(true)
resetLearning_keepingSwitch ==
  /\ component = "learn"
  /\ SetMemory([weights |-> createZeroWeights,
                stats |-> [messages |-> 0, updates |-> 0],
                learningEnabled |-> memory.learningEnabled])
  /\ UNCHANGED <<component, messages, input, isTyping, loading, context, task, loaded>>

resetLearning ==
  /\ component = "learn"
  /\ SetMemory([weights |-> createZeroWeights,
                stats |-> [messages |-> 0, updates |-> 0],
                learningEnabled |-> TRUE])
  /\ UNCHANGED <<component, messages, input, isTyping, loading, context, task, loaded>>

\* handleSend counting a message before its gate
handleSend_countingRejected ==
  /\ component = "learn"
  /\ LET text == trim(input)
     IN IF text = "" \/ isTyping
        THEN /\ SetMemory([memory EXCEPT !.stats.messages = memory.stats.messages + 1])
             /\ memory.stats.messages < PriorGreetings + MaxExchanges + 2
             /\ UNCHANGED <<component, messages, input, isTyping, loading, context,
                            task, loaded>>
        ELSE /\ UserCount < MaxExchanges
             /\ messages' = Append(messages, [role |-> "user", content |-> text])
             /\ input' = ""
             /\ isTyping' = TRUE
             /\ task' = [pc |-> "delay", text |-> text, context |-> context,
                         weights |-> memory.weights]
             /\ UNCHANGED <<component, loading, context, memory, storage, effect, loaded>>

\* handleSend up to its first await
handleSend ==
  /\ component = "learn"
  /\ LET text == trim(input)
     IN IF text = "" \/ isTyping
        THEN UNCHANGED vars
        ELSE /\ UserCount < MaxExchanges
             /\ messages' = Append(messages, [role |-> "user", content |-> text])
             /\ input' = ""
             /\ isTyping' = TRUE
             /\ task' = [pc |-> "delay", text |-> text, context |-> context,
                         weights |-> memory.weights]
             /\ UNCHANGED <<component, loading, context, memory, storage, effect, loaded>>

\* the 250 ms timer fires: handleSend decides the intent on the weights and the
\* context of its render, updates the memory and starts typing the reply
AfterDelay ==
  /\ component = "learn"
  /\ task.pc = "delay"
  /\ LET d == decideIntent(task.weights, task.text)
         updatedContext == updateContext(task.context, task.text, d.topIntent)
         reply == generateResponseForIntent(d.topIntent, updatedContext)
     IN /\ context' = updatedContext
        /\ SetMemory(exchangeUpdate(memory, d.topIntent, d.features))
        /\ StartTyping(messages, reply)
  /\ UNCHANGED <<component, input, loading, loaded>>

(***************************************************************************)
(* basic                                                                   *)
(***************************************************************************)
\* handleSend of the basic component appending the input as typed
handleSendBasic_untrimmed ==
  /\ component = "basic"
  /\ LET text == trim(input)
     IN IF text = "" \/ isTyping
        THEN UNCHANGED vars
        ELSE /\ UserCount < MaxExchanges
             /\ messages' = Append(messages, [role |-> "user", content |-> input])
             /\ input' = ""
             /\ isTyping' = TRUE
             /\ context' = updateContextBasic(context, text)
             /\ task' = [pc |-> "delay", text |-> text, context |-> context']
             /\ UNCHANGED <<component, loading, memory, storage, effect, loaded>>

handleSendBasic ==
  /\ component = "basic"
  /\ LET text == trim(input)
     IN IF text = "" \/ isTyping
        THEN UNCHANGED vars
        ELSE /\ UserCount < MaxExchanges
             /\ messages' = Append(messages, [role |-> "user", content |-> text])
             /\ input' = ""
             /\ isTyping' = TRUE
             /\ context' = updateContextBasic(context, text)
             /\ task' = [pc |-> "delay", text |-> text, context |-> context']
             /\ UNCHANGED <<component, loading, memory, storage, effect, loaded>>

\* the 400 ms timer fires
AfterDelayBasic ==
  /\ component = "basic"
  /\ task.pc = "delay"
  /\ StartTyping(messages, decideResponse(task.text, task.context))
  /\ UNCHANGED <<component, input, loading, context, memory, storage, effect, loaded>>

(***************************************************************************)
(* bot                                                                     *)
(***************************************************************************)
\* handleSend of the bot component without its test of loading
handleSendBot_whileLoading ==
  /\ component = "bot"
  /\ LET trimmed == trim(input)
     IN IF trimmed = ""
        THEN UNCHANGED vars
        ELSE /\ UserCount < MaxExchanges
             /\ messages' = Append(messages, [from |-> "user", text |-> trimmed])
             /\ input' = ""
             /\ loading' = TRUE
             /\ task' = [pc |-> "frame", text |-> trimmed]
             /\ UNCHANGED <<component, isTyping, context, memory, storage, effect, loaded>>

handleSendBot ==
  /\ component = "bot"
  /\ LET trimmed == trim(input)
     IN IF trimmed = "" \/ loading
        THEN UNCHANGED vars
        ELSE /\ UserCount < MaxExchanges
             /\ messages' = Append(messages, [from |-> "user", text |-> trimmed])
             /\ input' = ""
             /\ loading' = TRUE
             /\ task' = [pc |-> "frame", text |-> trimmed]
             /\ UNCHANGED <<component, isTyping, context, memory, storage, effect, loaded>>

\* generateBotResponse returns, or TensorFlow.js throws and the catch answers
BotReply ==
  /\ component = "bot"
  /\ task.pc = "frame"
  /\ \E reply \in {generateBotResponse(task.text), BotErrorReply} :
       messages' = Append(messages, [from |-> "bot", text |-> reply])
  /\ loading' = FALSE
  /\ task' = Idle
  /\ UNCHANGED <<component, input, isTyping, context, memory, storage, effect, loaded>>

\* onKeyDown of the input field
handleKeyDown ==
  \E e \in KeyEvents :
    IF e.key = "Enter" /\ ~e.shiftKey
    THEN handleSend \/ handleSendBasic \/ handleSendBot
    ELSE component \in {"learn", "basic", "bot"} /\ UNCHANGED vars

\* onClick of the Send button, which is disabled while a reply is in progress
\* or the trimmed input is empty
ClickSend ==
  /\ ~((isTyping \/ loading) \/ trim(input) = "")
  /\ (handleSend \/ handleSendBasic \/ handleSendBot)

Next ==
  \/ SetInput
  \/ handleKeyDown
  \/ ClickSend
  \/ toggleLearning
  \/ resetLearning
  \/ AfterDelay
  \/ AfterDelayBasic
  \/ BotReply
  \/ TypeStep
  \/ PersistEffect

Spec == Init /\ [][Next]_vars

\* the 250 ms timer of handleSend is running
DelayPending == component = "learn" /\ task.pc = "delay"

\* generateBotResponse awaits tf.nextFrame()
FramePending == component = "bot" /\ task.pc = "frame"

\* React runs a pending effect, and the browser fires a timer or an animation
\* frame that has been requested: none of them is postponed for ever.  The
\* last two conjuncts are WF_vars(AfterDelay) and WF_vars(BotReply) with
\* ENABLED <<AfterDelay>>_vars and ENABLED <<BotReply>>_vars written as the
\* state predicates they are equal to, DelayPending and FramePending.
SpecFair ==
  /\ Spec
  /\ WF_vars(PersistEffect)
  /\ WF_vars(TypeStep)
  /\ WF_vars(AfterDelayBasic)
  /\ ([]<>(~DelayPending) \/ []<><<AfterDelay>>_vars)
  /\ ([]<>(~FramePending) \/ []<><<BotReply>>_vars)

(***************************************************************************)
(* loadMemory() on any content of the three keys (specification SpecLoad)  *)
(***************************************************************************)
WeightsItems ==
  { NoItem, RawText(""), RawText("{oops"),
    JsonText(JNull), JsonText(JNum(5)), JsonText(JArr(<<>>)),
    JsonText(WeightsToJs(createZeroWeights)),
    JsonText(JObj([k \in {"greeting", "weather"} |->
                    IF k = "greeting"
                    THEN JArr([i \in 1..FeatureCount |-> JStr("a")])
                    ELSE JArr(<<JNum(One), JNum(0), JNum(0)>>)])) }

StatsItems ==
  { NoItem, RawText("{oops"),
    JsonText(JNull), JsonText(JNum(7)),
    JsonText(StatsToJs([messages |-> 3, updates |-> 2])),
    JsonText(JObj([f \in {"messages"} |-> JStr("3")])) }

LearnItems ==
  { NoItem, RawText("maybe"),
    JsonText(JBool(TRUE)), JsonText(JBool(FALSE)),
    JsonText(JNum(0)), JsonText(JStr("no")) }

\* localStorage.setItem(key, item); an absent item leaves the key absent
setItem(st, key, item) ==
  IF item = NoItem THEN st
  ELSE [k \in DOMAIN st \cup {key} |-> IF k = key THEN item ELSE st[k]]

AnyStorages ==
  { setItem(setItem(setItem(EmptyStorage, LS_KEYS.weights, w), LS_KEYS.stats, st),
            LS_KEYS.learnEnabled, l) :
      w \in WeightsItems, st \in StatsItems, l \in LearnItems }

InitLoad ==
  /\ component = "loader"
  /\ messages = <<>>
  /\ input = ""
  /\ isTyping = FALSE
  /\ loading = FALSE
  /\ context = InitialContext
  /\ storage \in AnyStorages
  /\ memory = DefaultMemory
  /\ effect = <<>>
  /\ task = Idle
  /\ loaded = NotLoaded

\* a call of loadMemory()
LoadMemory ==
  /\ component = "loader"
  /\ loaded = NotLoaded
  /\ loaded' = loadMemory(storage)
  /\ UNCHANGED <<component, messages, input, isTyping, loading, context, memory,
                 storage, effect, task>>

NextLoad == LoadMemory

SpecLoad == InitLoad /\ [][NextLoad]_vars

(***************************************************************************)
(* The pure functions on sample arguments (specification SpecFun)          *)
(***************************************************************************)
\* texts for extractFeatures, decideIntent and generateBotResponse
FunTexts ==
  { undefined, "", "  ", " Hi ", "Bye?", "y", "ok", "OK 42!", "zzz", "yyyyx", "yyyyy",
    "zzzzzz", "this", "hello help", "help with color", "my theme", "one two  three",
    "one two three four", "what is the weather today?",
    "HELP me build a React theme!", "a b c d e f g h i j k l",
    "a b c d e f g h i j k l m", "thanks, that was great :)" }

\* a matrix with weights of both signs
MixedWeights ==
  [k \in IntentKeys |->
     [i \in 1..FeatureCount |-> (((Len(k) * 7 + i * 13) % 41) - 20) * 100000]]

\* weight matrices for scoreIntents and decideIntent
FunWeights ==
  {createZeroWeights, MixedWeights} \cup {m.weights : m \in PriorMemories}

\* feature vectors for scoreIntents
FunFeatures ==
  { [i \in 1..FeatureCount |-> 0],
    [i \in 1..FeatureCount |-> 1],
    [i \in 1..FeatureCount |-> i % 2],
    extractFeatures("what is the weather today?"),
    extractFeatures("thanks, that was great :)") }

InitFun ==
  /\ component = "functions"
  /\ messages = <<>>
  /\ input = ""
  /\ isTyping = FALSE
  /\ loading = FALSE
  /\ context = InitialContext
  /\ storage = EmptyStorage
  /\ memory = DefaultMemory
  /\ effect = <<>>
  /\ task \in [pc : {"call"}, text : FunTexts, weights : FunWeights,
                features : FunFeatures]
  /\ loaded = NotLoaded

\* a call of fn that returns result
Returns(fn, result) ==
  /\ component = "functions"
  /\ loaded = NotLoaded
  /\ loaded' = [fn |-> fn, result |-> result]
  /\ UNCHANGED <<component, messages, input, isTyping, loading, context, memory,
                 storage, effect, task>>

CallExtractFeatures ==
  /\ task.pc = "call"
  /\ Returns("extractFeatures", extractFeatures(task.text))

CallScoreIntents ==
  /\ task.pc = "call"
  /\ Returns("scoreIntents", scoreIntents(task.weights, task.features))

CallDecideIntent ==
  /\ task.text # undefined
  /\ Returns("decideIntent", decideIntent(task.weights, task.text))

CallGenerateBotResponse ==
  /\ task.pc = "call"
  /\ Returns("generateBotResponse", generateBotResponse(task.text))

NextFun ==
  \/ CallExtractFeatures
  \/ CallScoreIntents
  \/ CallDecideIntent
  \/ CallGenerateBotResponse

SpecFun == InitFun /\ [][NextFun]_vars

(***************************************************************************)
(* Properties                                                              *)
(***************************************************************************)
\* the step in which a learn exchange applies its memory update
UpdateStep == component = "learn" /\ task.pc = "delay" /\ task'.pc # "delay"

\* a step that appends a user message
SendStep == UserCount' = UserCount + 1

\* 0.99 * w to the nearest unit, 0 when below 0.0001 in absolute value
Decayed(w) ==
  LET v == (w * 198 + 100) \div 200
  IN IF -100 < v /\ v < 100 THEN 0 ELSE v

\* w + 0.1 * x, kept within [-2, 2]
Reinforced(w, x) ==
  LET v == w + 100000 * x
  IN IF v > 2000000 THEN 2000000 ELSE IF v < -2000000 THEN -2000000 ELSE v

\* C1: when an exchange's update is applied with learning enabled, for the
\* chosen intent I and the feature vector x of the message, every weight of I
\* becomes clamp(w + 0.1 * x[i], -2, 2) and every weight of another intent
\* becomes 0.99 * w, or 0 when that is below 0.0001 in absolute value.
C1_UpdateRule ==
  [][ (UpdateStep /\ memory.learningEnabled) =>
        LET I == context'.lastIntent
            x == extractFeatures(task.text)
        IN \A k \in IntentKeys : \A i \in 1..FeatureCount :
             memory'.weights[k][i] =
               IF k = I THEN Reinforced(memory.weights[k][i], x[i])
               ELSE Decayed(memory.weights[k][i]) ]_vars

\* a learning update of this run has clamped a weight at 2 and decayed the
\* weights of another intent to 0
C1_Witness ==
  /\ component = "learn"
  /\ task.pc = "typing"
  /\ memory.learningEnabled
  /\ memory.stats.updates = PriorGreetings + 2
  /\ context.lastIntent = "greeting"
  /\ memory.weights["greeting"][1] = 2000000
  /\ \A i \in 1..FeatureCount : memory.weights["farewell"][i] = 0

\* C2: from zero weights, every weight of every intent stays within [0, 2].
C2_WeightRange ==
  component = "learn" =>
    \A k \in IntentKeys : \A i \in 1..FeatureCount :
      0 <= memory.weights[k][i] /\ memory.weights[k][i] <= 2000000

\* weights at the upper end, at 0 and strictly between, after a learning
\* update of this run
C2_Witness ==
  /\ component = "learn"
  /\ memory.stats.updates = PriorGreetings + 3
  /\ memory.weights["greeting"][1] = 2000000
  /\ \E i \in 1..FeatureCount :
       0 < memory.weights["greeting"][i] /\ memory.weights["greeting"][i] < 2000000
  /\ \A i \in 1..FeatureCount : memory.weights["weather"][i] = 0

\* C3: an update applied while learning is off leaves the weights and
\* stats.updates as they are and adds 1 to stats.messages; toggleLearning
\* flips learningEnabled and leaves the weights and the stats as they are.
C3_LearningOff ==
  [][ /\ (UpdateStep /\ ~memory.learningEnabled) =>
           /\ memory'.weights = memory.weights
           /\ memory'.stats.updates = memory.stats.updates
           /\ memory'.stats.messages = memory.stats.messages + 1
           /\ memory'.learningEnabled = memory.learningEnabled
      /\ toggleLearning =>
           /\ memory'.learningEnabled = ~memory.learningEnabled
           /\ memory'.weights = memory.weights
           /\ memory'.stats = memory.stats ]_vars

\* an exchange of the first run, answered with learning switched off
C3_Witness ==
  /\ component = "learn"
  /\ task.pc = "typing"
  /\ ~memory.learningEnabled
  /\ memory.stats = [messages |-> 1, updates |-> 0]
  /\ memory.weights = createZeroWeights

\* C4: the memory update happens once per exchange.  A task is started by an
\* accepted send and by nothing else, its update step adds exactly 1 to
\* stats.messages and, with learning on, applies updateWeights once and adds
\* exactly 1 to stats.updates; no other step but a reset (a rejected send
\* least of all) changes the weights or the counters.
C4_OncePerExchange ==
  [][ /\ SendStep <=> (task.pc = "idle" /\ task'.pc \in {"delay", "frame"})
      /\ UpdateStep =>
           /\ memory'.stats.messages = memory.stats.messages + 1
           /\ memory'.stats.updates =
                 memory.stats.updates + (IF memory.learningEnabled THEN 1 ELSE 0)
           /\ memory.learningEnabled =>
                 memory'.weights =
                   updateWeights(memory.weights, context'.lastIntent,
                                 extractFeatures(task.text), 100000, 2000000, 10000)
      /\ (~UpdateStep /\ ~resetLearning) =>
           /\ memory'.stats = memory.stats
           /\ memory'.weights = memory.weights ]_vars

\* the first exchange of the first run has been counted and learned once
C4_Witness ==
  /\ component = "learn"
  /\ UserCount = 1
  /\ task.pc = "typing"
  /\ memory.stats = [messages |-> 1, updates |-> 1]
  /\ memory.weights["farewell"][6] = 100000

\* C5: resetLearning leaves every weight 0, stats {messages: 0, updates: 0}
\* and learningEnabled true, and leaves the transcript and the context as
\* they are.
C5_Reset ==
  [][ resetLearning =>
        /\ \A k \in IntentKeys : \A i \in 1..FeatureCount : memory'.weights[k][i] = 0
        /\ DOMAIN memory'.weights = IntentKeys
        /\ memory'.stats = [messages |-> 0, updates |-> 0]
        /\ memory'.learningEnabled = TRUE
        /\ messages' = messages
        /\ context' = context ]_vars

\* a reset has just cleared a learned memory whose learning was switched off:
\* localStorage still holds the memory before the reset
C5_Witness ==
  /\ component = "learn"
  /\ memory = DefaultMemory
  /\ effect = <<DefaultMemory>>
  /\ UserCount >= 1
  /\ getItem(storage, LS_KEYS.learnEnabled) = JsonText(JBool(FALSE))
  /\ getItem(storage, LS_KEYS.weights) # JsonText(WeightsToJs(createZeroWeights))

\* what the three keys hold once the memory m has been persisted
StoredAs(st, m) ==
  /\ getItem(st, LS_KEYS.weights) = JsonText(WeightsToJs(m.weights))
  /\ getItem(st, LS_KEYS.stats) = JsonText(StatsToJs(m.stats))
  /\ getItem(st, LS_KEYS.learnEnabled) = JsonText(JBool(m.learningEnabled))

Gated == trim(input) = "" \/ isTyping \/ loading

Role(m) == IF component = "bot"
           THEN (IF m.from = "user" THEN "user" ELSE "assistant")
           ELSE m.role

Content(m) == IF component = "bot" THEN m.text ELSE m.content

\* C9: in all three components, while the trimmed input is empty or a reply
\* is in progress no step appends a user message, starts an exchange or
\* clears the input together with another change; an exchange is in flight
\* exactly while isTyping or loading is true, and at most one user message
\* awaits its reply.
C9_SendGate ==
  /\ []((task.pc # "idle") <=> (isTyping \/ loading))
  /\ [](UserCount \in {(Len(messages) - 1) \div 2, Len(messages) \div 2})
  /\ [][ Gated =>
           /\ UserCount' = UserCount
           /\ ~(task.pc = "idle" /\ task'.pc # "idle")
           /\ input' # input =>
                UNCHANGED <<component, messages, isTyping, loading, context,
                            memory, storage, effect, task, loaded>> ]_vars

\* new text is in the input field while the reply of an exchange is in progress
C9_Witness ==
  /\ isTyping \/ loading
  /\ trim(input) # ""
  /\ UserCount = 1
  /\ Len(messages) = 2

\* C10: the transcript is the initial greeting followed by strictly
\* alternating user and assistant messages; a step appends at most one
\* message and removes or reorders none, and changes the content of no
\* message but the one being typed; an accepted send appends one user message
\* whose content is the trimmed input and clears the input; an assistant
\* message is appended only by the exchange in flight, once, and every user
\* message is eventually followed by its assistant message.
C10_ExchangeProtocol ==
  /\ [](/\ Len(messages) >= 1
        /\ messages[1] = InitialMessages(component)[1]
        /\ \A i \in 1..Len(messages) :
             Role(messages[i]) = IF i % 2 = 1 THEN "assistant" ELSE "user"
        /\ Len(messages) % 2 = 0 => task.pc \in {"delay", "frame"})
  /\ [][ /\ Len(messages') \in {Len(messages), Len(messages) + 1}
         /\ \A i \in 1..Len(messages) :
              /\ Role(messages'[i]) = Role(messages[i])
              /\ \/ Content(messages'[i]) = Content(messages[i])
                 \/ i = Len(messages) /\ task.pc = "typing" /\ i % 2 = 1
         /\ SendStep =>
              /\ ~Gated
              /\ Len(messages') = Len(messages) + 1
              /\ Content(messages'[Len(messages')]) = trim(input)
              /\ input' = ""
         /\ (Len(messages') = Len(messages) + 1 /\ ~SendStep) =>
              /\ task.pc \in {"delay", "frame"}
              /\ task'.pc \notin {"delay", "frame"}
              /\ component = "bot" =>
                   Content(messages'[Len(messages')]) \in
                     {generateBotResponse(Content(messages[Len(messages)])),
                      BotErrorReply} ]_vars
  /\ (Len(messages) % 2 = 0) ~> (Len(messages) % 2 = 1)

\* two exchanges of the basic component have run to their end
C10_Witness ==
  /\ component = "basic"
  /\ Len(messages) = 5
  /\ task.pc = "idle"
  /\ messages[2].content = "Hi"
  /\ input = ""

\* no exchange is in flight and the transcript ends with a finished reply
Completed ==
  /\ ~isTyping
  /\ ~loading
  /\ task.pc = "idle"
  /\ Len(messages) % 2 = 1
  /\ \A i \in 1..Len(messages) : "typingId" \notin DOMAIN messages[i]

\* C11: with timers firing, every accepted send completes: while a reply is
\* in progress no further message is accepted, and eventually the reply of
\* that same message is fully shown, isTyping (loading) is false again and
\* the send gate depends on the input only; the step that ends the typing
\* leaves the full reply in the last message.
C11_SendCompletes ==
  /\ \A n \in 1..MaxExchanges :
       (UserCount = n /\ (isTyping \/ loading)) ~> (UserCount = n /\ Completed)
  /\ [](Completed => (Gated <=> trim(input) = ""))
  /\ [][ (task.pc = "typing" /\ task'.pc = "idle") =>
           /\ Completed'
           /\ Content(messages'[Len(messages')]) = task.fullText
           /\ task.fullText # "" ]_vars

\* the second exchange of the learn component has completed
C11_Witness ==
  /\ component = "learn"
  /\ UserCount = 2
  /\ Completed
  /\ Len(messages) = 5
  /\ Len(messages[5].content) = MaxReplyLen
  /\ input = " Hi "

\* the message being typed and what it shows
TypedMessage == messages[Len(messages)]

IsPrefix(p, t) == Len(p) <= Len(t) /\ SubSeq(t, 1, Len(p)) = p

\* C12: while a reply is typed, the message being typed is the last one, an
\* assistant message, and its content is a proper prefix of the full reply;
\* it is appended empty, each typing step adds exactly the next character
\* (UTF-16 unit) of the reply to it, the step that ends the typing leaves the
\* full reply in it, and the typing does end; no step changes another
\* message while a reply is typed.
C12_TypingByCharacter ==
  /\ [](task.pc = "typing" =>
          /\ component \in {"learn", "basic"}
          /\ Role(TypedMessage) = "assistant"
          /\ HasTypingId(TypedMessage, task.typingId)
          /\ IsPrefix(TypedMessage.content, task.fullText)
          /\ Len(TypedMessage.content) < Len(task.fullText))
  /\ [][ /\ (task.pc # "typing" /\ task'.pc = "typing") =>
              /\ Len(messages') = Len(messages) + 1
              /\ TypedMessage'.content = ""
              /\ task'.fullText =
                    LET reply == IF component = "learn"
                                 THEN generateResponseForIntent(context'.lastIntent, context')
                                 ELSE decideResponse(task.text, context)
                    IN SubSeq(reply, 1, Min(Len(reply), MaxReplyLen))
         /\ task.pc = "typing" =>
              /\ Len(messages') = Len(messages)
              /\ \A i \in 1..(Len(messages) - 1) : messages'[i] = messages[i]
              /\ messages' # messages =>
                    /\ Len(TypedMessage'.content) = Len(TypedMessage.content) + 1
                    /\ IsPrefix(TypedMessage'.content, task.fullText)
                    /\ Role(TypedMessage') = "assistant"
              /\ task'.pc # "typing" => TypedMessage'.content = task.fullText ]_vars
  /\ \A n \in 1..MaxExchanges :
       (task.pc = "typing" /\ UserCount = n)
         ~> (task.pc = "idle" /\ UserCount = n /\ Len(Content(TypedMessage)) > 0)

\* two of the three characters of a reply of the basic component are shown
C12_Witness ==
  /\ component = "basic"
  /\ task.pc = "typing"
  /\ Len(task.fullText) = 3
  /\ Len(TypedMessage.content) = 2
  /\ Len(messages) = 3

\* loaded holds the result of a call of fn
Returned(fn) == loaded # NotLoaded /\ "fn" \in DOMAIN loaded /\ loaded.fn = fn

\* dot(W_k, x) + baseBias + 0.15 for each active feature of BASE_RULES[k]
ExpectedScore(W, x, k) ==
  LET def == INTENT_DEFS[CHOOSE d \in DOMAIN INTENT_DEFS : INTENT_DEFS[d].key = k]
      products == [i \in 1..FeatureCount |-> W[k][i] * x[i]]
      active == {r \in DOMAIN BASE_RULES[k] :
                   \E i \in 1..FeatureCount :
                      FEATURE_SPECS[i].name = BASE_RULES[k][r] /\ x[i] > 0}
  IN SumTo(products, FeatureCount) + def.baseBias + 150000 * Cardinality(active)

\* C13: scoreIntents returns the 7 intents, each once, each with the score
\* dot(W_intent, x) + baseBias + 0.15 * (number of its BASE_RULES features
\* active in x), in order of non-increasing score; decideIntent chooses an
\* intent whose score no other intent exceeds.
C13_IntentSelection ==
  /\ Returned("scoreIntents") =>
       LET ranked == loaded.result
       IN /\ Len(ranked) = 7
          /\ {ranked[r].key : r \in 1..Len(ranked)} = IntentKeys
          /\ \A r \in 1..Len(ranked) :
               ranked[r].score = ExpectedScore(task.weights, task.features, ranked[r].key)
          /\ \A r \in 1..(Len(ranked) - 1) : ranked[r].score >= ranked[r + 1].score
  /\ Returned("decideIntent") =>
       LET x == loaded.result.features
       IN /\ loaded.result.topIntent \in IntentKeys
          /\ \A k \in IntentKeys :
               ExpectedScore(task.weights, x, loaded.result.topIntent)
                 >= ExpectedScore(task.weights, x, k)

\* scoreIntents has ranked the intents for weights of both signs and a
\* message with a weather keyword and a question mark
C13_Witness ==
  /\ Returned("scoreIntents")
  /\ task.weights = MixedWeights
  /\ task.features = extractFeatures("what is the weather today?")
  /\ loaded.result[1].score > loaded.result[2].score
  /\ loaded.result[7].score < 0

\* the number of words of t: the positions where a run of non-space ends
WordsIn(t) ==
  Cardinality({i \in 1..Len(t) :
                 /\ CharAt(t, i) # " "
                 /\ (i = Len(t) \/ CharAt(t, i + 1) = " ")})

\* the index of the feature called fname
FeatureIndex(fname) == CHOOSE i \in 1..FeatureCount : FEATURE_SPECS[i].name = fname

\* C14: for every text, a missing or empty one included, extractFeatures
\* returns 15 entries that are 0 or 1; each of the 12 keyword and cue entries
\* is 1 exactly when one of its tokens is a substring of the lower-cased
\* trimmed text; exactly one length bucket is 1: len_short for at most 3
\* words, len_medium for 4 to 12, len_long for more than 12.
C14_Features ==
  Returned("extractFeatures") =>
    LET x == loaded.result
        text == IF task.text = undefined THEN "" ELSE trim(toLowerCase(task.text))
        wc == WordsIn(text)
        short == FeatureIndex("len_short")
        medium == FeatureIndex("len_medium")
        long == FeatureIndex("len_long")
    IN /\ Len(x) = 15
       /\ \A i \in 1..Len(x) : x[i] \in {0, 1}
       /\ \A i \in 1..Len(x) \ {short, medium, long} :
            x[i] = 1 <=> \E t \in 1..Len(FEATURE_SPECS[i].tokens) :
                           includes(text, FEATURE_SPECS[i].tokens[t])
       /\ x[short] = 1 <=> wc <= 3
       /\ x[medium] = 1 <=> (4 <= wc /\ wc <= 12)
       /\ x[long] = 1 <=> wc > 12
       /\ x[short] + x[medium] + x[long] = 1

\* the features of an upper-case message of 6 words with two keywords
C14_Witness ==
  /\ Returned("extractFeatures")
  /\ task.text = "HELP me build a React theme!"
  /\ loaded.result[FeatureIndex("kw_project")] = 1
  /\ loaded.result[FeatureIndex("kw_help")] = 1
  /\ loaded.result[FeatureIndex("cue_exclaim")] = 1
  /\ loaded.result[FeatureIndex("len_medium")] = 1
  /\ loaded.result[FeatureIndex("kw_hello")] = 0

\* the intents whose score for W and x no intent exceeds
TopTied(W, x) ==
  {k \in IntentKeys :
     \A j \in IntentKeys : ExpectedScore(W, x, k) >= ExpectedScore(W, x, j)}

\* intent k has an active kw_* feature among its BASE_RULES
MatchesKeywordRule(x, k) ==
  \E r \in DOMAIN BASE_RULES[k] :
    /\ SubSeq(BASE_RULES[k][r], 1, 3) = "kw_"
    /\ x[FeatureIndex(BASE_RULES[k][r])] > 0

\* C15: when several intents are tied for the top score and one of them
\* matches an explicit keyword rule, decideIntent chooses a tied intent that
\* matches one.
C15_TieBreak ==
  Returned("decideIntent") =>
    LET x == loaded.result.features
        tied == TopTied(task.weights, x)
    IN (\E k \in tied : MatchesKeywordRule(x, k)) =>
         /\ loaded.result.topIntent \in tied
         /\ MatchesKeywordRule(x, loaded.result.topIntent)

\* the code of one character: a-z are 1..26, the space is 27, all others 0
CharCode(ch) ==
  IF ch = " " THEN 27
  ELSE IF \E i \in 1..26 : CharAt("abcdefghijklmnopqrstuvwxyz", i) = ch
  THEN CHOOSE i \in 1..26 : CharAt("abcdefghijklmnopqrstuvwxyz", i) = ch
  ELSE 0

RECURSIVE CodeSum(_, _)
CodeSum(lower, n) ==
  IF n = 0 THEN 0 ELSE CodeSum(lower, n - 1) + CharCode(CharAt(lower, n))

\* C16: for every non-empty trimmed text generateBotResponse answers by the
\* keyword rules in the order hello/hi, help, color/theme (substrings of the
\* lower-cased text); when none matches, by score = sum + mean of the
\* character codes: below 50 the elaborate reply, from 50 and below 150 the
\* follow-up reply, from 150 the summarize reply.
C16_ReplySelection ==
  (Returned("generateBotResponse") /\ trim(OrEmpty(task.text)) # "") =>
    LET lower == toLowerCase(trim(OrEmpty(task.text)))
        n == Len(lower)
        sum == CodeSum(lower, n)
        reply == loaded.result
    IN /\ (includes(lower, "hello") \/ includes(lower, "hi")) =>
            reply = "Hi there! <**> What would you like to chat about?"
       /\ (~includes(lower, "hello") /\ ~includes(lower, "hi") /\ includes(lower, "help")) =>
            reply = "Sure! Tell me a bit more about what you need help with."
       /\ ( /\ ~includes(lower, "hello") /\ ~includes(lower, "hi") /\ ~includes(lower, "help")
            /\ (includes(lower, "color") \/ includes(lower, "theme")) ) =>
            reply = "We are using the Ocean Professional theme: blue (#2563EB), amber (#F59E0B), and a clean surface."
       /\ ( /\ ~includes(lower, "hello") /\ ~includes(lower, "hi") /\ ~includes(lower, "help")
            /\ ~includes(lower, "color") /\ ~includes(lower, "theme") ) =>
            \* score = sum + sum / n, compared without the division
            /\ (sum * (n + 1) < 50 * n) =>
                 reply = "Interesting! Could you elaborate a bit more?"
            /\ (50 * n <= sum * (n + 1) /\ sum * (n + 1) < 150 * n) =>
                 reply = "Got it. That makes sense. Do you have any follow-up questions?"
            /\ (sum * (n + 1) >= 150 * n) =>
                 reply = "Thanks for the details! If you want, I can summarize or suggest next steps."

\* a text whose score is exactly 150 got the summarize reply
C16_Witness ==
  /\ Returned("generateBotResponse")
  /\ task.text = "yyyyy"
  /\ CodeSum("yyyyy", 5) * 6 = 150 * 5
  /\ loaded.result = "Thanks for the details! If you want, I can summarize or suggest next steps."

\* the shape loadMemory's documentation promises
IsNumberArray(e) ==
  /\ e.t = "array"
  /\ Len(e.v) = FeatureCount
  /\ \A i \in 1..Len(e.v) : e.v[i].t = "number"

WellShaped(m) ==
  /\ m.weights.t \in {"object", "array"}
  /\ \A k \in IntentKeys : IsNumberArray(GetProp(m.weights, k))
  /\ m.stats.t = "object"
  /\ \A f \in {"messages", "updates"} : GetProp(m.stats, f).t = "number"
  /\ m.learningEnabled.t = "boolean"

\* C8: for any content of the three keys loadMemory returns weights with an
\* array of 15 numbers for each intent, stats with numeric messages and
\* updates and a boolean learningEnabled; a missing key yields its default.
C8_SafeDefaults ==
  loaded # NotLoaded =>
    /\ WellShaped(loaded)
    /\ getItem(storage, LS_KEYS.weights) = NoItem =>
         loaded.weights = WeightsToJs(createZeroWeights)
    /\ getItem(storage, LS_KEYS.stats) = NoItem =>
         loaded.stats = StatsToJs([messages |-> 0, updates |-> 0])
    /\ getItem(storage, LS_KEYS.learnEnabled) = NoItem =>
         loaded.learningEnabled = JBool(TRUE)

=============================================================================
